---------------------------- MODULE Spec2Model ----------------------------
(***************************************************************************)
(* Model of the two Power BI dependency dashboards of this repository:     *)
(*   - the denormalized variant, src/mcp_analyzer.py (MCPStreamlitBridge): *)
(*     one projects table whose rows carry the extracted data as JSON      *)
(*     text columns, filled by running a generated extractor script in a   *)
(*     subprocess;                                                         *)
(*   - the normalized variant, src/powerbi_analyzer.py                     *)
(*     (PowerBIDependencyAnalyzer): projects, tables, columns, measures,   *)
(*     relationships and power_queries tables, filled in-process.          *)
(* The variable "variant" says which of the two programs a behaviour runs. *)
(* Text (names, DAX expressions) is a sequence of one-character strings,   *)
(* so that lower(), sorted(), join() and the "in" substring test are       *)
(* computed as Python computes them.                                       *)
(***************************************************************************)
EXTENDS Integers, Sequences, FiniteSets, TLC

(***************************************************************************)
(* The field names of the records of the model.  TLC keeps the fields of a *)
(* record in the order in which the names first appear in the module; the  *)
(* records below list their fields as the source lists them (the columns   *)
(* of a CREATE TABLE, the keys of a dict literal), and the order given     *)
(* here agrees with every one of them.                                     *)
(***************************************************************************)
FieldOrder ==
    [text |-> 1, tag |-> 2, kind |-> 3, found |-> 4, op |-> 5, pc |-> 6,
     project_name |-> 7, projects_using_table |-> 8, raised |-> 9,
     nodes |-> 10, stored |-> 11, body |-> 12, timeout |-> 13, id |-> 14,
     term |-> 15, projects_using_column |-> 16,
     measures_referencing_table |-> 17, results |-> 18, weight |-> 19,
     content |-> 20, returncode |-> 21, project_id |-> 22, table_id |-> 23,
     scope |-> 24, projects_with_measure |-> 25, tables_ok |-> 26,
     stdout |-> 27, from_table |-> 28, table_name |-> 29,
     query_name |-> 30, rows |-> 31, measures_referencing_item |-> 32,
     measures_ok |-> 33, from_column |-> 34, name |-> 35,
     column_name |-> 36, measure_name |-> 37, m_expression |-> 38,
     to_table |-> 39, row_count |-> 40, expression |-> 41, ok |-> 42,
     file_hash |-> 43, file |-> 44, project_count |-> 45, data_type |-> 46,
     dax_expression |-> 47, to_column |-> 48, column_count |-> 49,
     value |-> 50, last_analyzed |-> 51, existing |-> 52, projects |-> 53,
     is_calculated |-> 54, match_type |-> 55, cardinality |-> 56,
     table_count |-> 57, tables_data |-> 58, result |-> 59, tables |-> 60,
     measure_count |-> 61, metadata_data |-> 62, extractor |-> 63,
     columns |-> 64, metadata |-> 65, relationship_count |-> 66,
     schema_data |-> 67, confirm_clear |-> 68, schema |-> 69,
     measures_data |-> 70, uploaded |-> 71, measures |-> 72,
     relationships_data |-> 73, messages |-> 74, relationships |-> 75,
     tmp_files |-> 76, queries |-> 77, power_queries |-> 78]

(***************************************************************************)
(* Bounds of the model.                                                    *)
(***************************************************************************)
\* Spec (two sessions that write): how many project names of NamePool are
\* used, how many file contents of Catalogue can be uploaded, and how many
\* calls may start before the AUTOINCREMENT counter of projects stops them
NumNames == 2
NumContents == 2
MaxInserts == 2
\* ReadSpec (one session that writes, and the read operations): the same
ReadNames == 3
ReadContents == 2
ReadInserts == 3

\* StoreSpec (the read operations on a projects table given as input): how
\* many project rows it may hold and from how many file contents
StoreNames == 3
StoreContents == 2

\* UploadSpec (the upload page handling a batch of files): how many project
\* names and file contents the uploaded files are drawn from, how many files
\* one upload may hold, and how many project rows may be inserted in all
UploadNames == 2
UploadContents == 1
UploadFiles == 2
UploadInserts == 3
\* the specification of the extractor script: how many project names are
\* used and how many rows can be inserted
ScriptNames == 2
ScriptInserts == 3
\* the specification of the column report: how many project names are
\* used and how many rows can be inserted
ColumnNames == 2
ColumnInserts == 3
\* the specification of the dependency graph: how many file contents can
\* be analyzed and how many rows can be inserted
NetContents == 2
NetInserts == 3
\* the specification of the two dashboards on one database file: how many
\* project names and file contents are used, and how many rows can be
\* inserted (before a restart, and after the last one)
InitNames == 2
InitContents == 1
InitInserts == 3

\* Python's None as a returned project id; row ids start at 1
None == 0

Sessions == {"s1", "s2"}
\* the single writing session of ReadSpec
Writer == "s1"

(***************************************************************************)
(* Text.                                                                   *)
(***************************************************************************)
\* ord(ch): the code point of the characters the model uses
Ord(ch) ==
    CASE ch = " " -> 32 [] ch = "," -> 44 [] ch = "." -> 46
      [] ch = "A" -> 65 [] ch = "B" -> 66 [] ch = "C" -> 67
      [] ch = "I" -> 73 [] ch = "O" -> 79 [] ch = "S" -> 83
      [] ch = "T" -> 84
      [] ch = "a" -> 97 [] ch = "b" -> 98 [] ch = "c" -> 99
      [] ch = "i" -> 105 [] ch = "o" -> 111 [] ch = "s" -> 115
      [] ch = "t" -> 116

\* str.lower() on one character
LowerChar(ch) ==
    CASE ch = "A" -> "a" [] ch = "B" -> "b" [] ch = "C" -> "c"
      [] ch = "I" -> "i" [] ch = "O" -> "o" [] ch = "S" -> "s"
      [] ch = "T" -> "t"
      [] OTHER -> ch

\* str.lower()
Lower(str) == [i \in 1..Len(str) |-> LowerChar(str[i])]

\* str.upper() on one character
UpperChar(ch) ==
    CASE ch = "a" -> "A" [] ch = "b" -> "B" [] ch = "c" -> "C"
      [] ch = "i" -> "I" [] ch = "o" -> "O" [] ch = "s" -> "S"
      [] ch = "t" -> "T"
      [] OTHER -> ch

\* Python's "needle in hay" on str
Contains(needle, hay) ==
    \E i \in 0..(Len(hay) - Len(needle)) :
        SubSeq(hay, i + 1, i + Len(needle)) = needle

\* Python's str "<": lexicographic by code point, a proper prefix is smaller
RECURSIVE StrLess(_, _)
StrLess(a, b) ==
    IF Len(b) = 0 THEN FALSE
    ELSE IF Len(a) = 0 THEN TRUE
    ELSE IF Ord(Head(a)) # Ord(Head(b)) THEN Ord(Head(a)) < Ord(Head(b))
    ELSE StrLess(Tail(a), Tail(b))

\* sorted(set_of_str): the ascending list
RECURSIVE Sorted(_)
Sorted(S) ==
    IF S = {} THEN <<>>
    ELSE LET m == CHOOSE x \in S : \A y \in S \ {x} : StrLess(x, y)
         IN  <<m>> \o Sorted(S \ {m})

\* sep.join(list_of_str)
RECURSIVE Join(_, _)
Join(strs, sep) ==
    IF Len(strs) = 0 THEN <<>>
    ELSE IF Len(strs) = 1 THEN strs[1]
    ELSE strs[1] \o sep \o Join(Tail(strs), sep)

\* the separators of the two implementations
CommaSpace == <<",", " ">>
Comma == <<",">>

\* every list holding each element of S exactly once
Perms(S) ==
    {f \in [1..Cardinality(S) -> S] : \A i, j \in DOMAIN f : f[i] = f[j] => i = j}

\* the elements of a list
Range(f) == {f[i] : i \in DOMAIN f}

RECURSIVE SumLen(_, _)
\* the number of items of the first k lists of a list of lists
SumLen(lists, k) == IF k = 0 THEN 0 ELSE SumLen(lists, k - 1) + Len(lists[k])

(***************************************************************************)
(* Uploaded files.  A file is one of the contents 0..NumContents; content  *)
(* 0 is a file the pbixray library cannot open, content c >= 1 holds the   *)
(* data model Catalogue[c].                                                *)
(***************************************************************************)
tSales == <<"S", "a">>
tOrders == <<"O", "s">>
tDotted == <<"a", ".", "b">>
tShort == <<"a">>
cAmt == <<"A", "t">>
cId == <<"I">>
cTail == <<"c">>
cDotted == <<"b", ".", "c">>
mTotal == <<"T", "o">>
mCost == <<"C", "o">>
xSumSales == <<"S", "a", ".", "A", "t">>
xSumOrders == <<"O", "s", ".", "I">>
\* a table name that holds the text the parser looks for
tMarked == <<"S", "U", "C", "C", "E", "S", "S", ":", "x">>

NamePool == << <<"B">>, <<"A">>, <<"C">>, <<"a">>, <<"A", ",", "B">> >>
NamesUpTo(k) == {NamePool[i] : i \in 1..k}

Catalogue ==
    << [tables |-> << [name |-> tSales, row_count |-> 2,
                       columns |-> <<cAmt, cId>>,
                       measures |-> << [name |-> mTotal, expression |-> xSumSales] >>] >>,
        relationships |-> <<>>,
        queries |-> <<>>],
       [tables |-> << [name |-> tSales, row_count |-> 1,
                       columns |-> <<cAmt>>,
                       measures |-> << [name |-> mTotal, expression |-> xSumSales] >>],
                      [name |-> tOrders, row_count |-> 3,
                       columns |-> <<cId>>,
                       measures |-> << [name |-> mTotal, expression |-> xSumOrders],
                                       [name |-> mCost, expression |-> <<>>] >>] >>,
        relationships |-> << [from_table |-> tOrders, from_column |-> cId,
                              to_table |-> tSales, to_column |-> cId,
                              cardinality |-> "ManyToOne"] >>,
        queries |-> << [name |-> tOrders, expression |-> <<"s">>] >>],
       [tables |-> << [name |-> tOrders, row_count |-> 0,
                       columns |-> <<cId, cAmt>>,
                       measures |-> << [name |-> mCost, expression |-> xSumOrders] >>] >>,
        relationships |-> <<>>,
        queries |-> <<>>],
       [tables |-> << [name |-> tDotted, row_count |-> 0,
                       columns |-> <<cTail>>,
                       measures |-> <<>>] >>,
        relationships |-> <<>>,
        queries |-> <<>>],
       [tables |-> << [name |-> tShort, row_count |-> 0,
                       columns |-> <<cDotted>>,
                       measures |-> <<>>] >>,
        relationships |-> <<>>,
        queries |-> <<>>],
       [tables |-> << [name |-> tSales, row_count |-> 1,
                       columns |-> <<cId>>,
                       measures |-> << [name |-> mTotal, expression |-> xSumSales] >>],
                      [name |-> tMarked, row_count |-> 1,
                       columns |-> <<cId>>,
                       measures |-> <<>>] >>,
        relationships |-> << [from_table |-> tMarked, from_column |-> cId,
                              to_table |-> tSales, to_column |-> cId,
                              cardinality |-> "ManyToOne"] >>,
        queries |-> <<>>] >>

ContentsUpTo(k) == 0..k
\* whether the pbixray library opens the file
Loadable(c) == c # 0
\* the data model of a file the library opens
Bundle(c) == Catalogue[c]

\* get_file_hash: the MD5 digest, equal exactly for equal contents
FileHash(c) == <<"md5", c>>


(***************************************************************************)
(* JSON text.  json.dumps yields a text that json.loads turns back into    *)
(* the value; any other text makes json.loads raise JSONDecodeError.       *)
(***************************************************************************)
JsonDumps(v) == [text |-> "json", value |-> v]
GarbageText == [text |-> "garbage", value |-> <<>>]
JsonLoads(t) ==
    IF t.text = "json" THEN [ok |-> TRUE, value |-> t.value]
    ELSE [ok |-> FALSE, value |-> <<>>]

(***************************************************************************)
(* The generated extractor script (mcp_analyzer.py, temp_script).          *)
(***************************************************************************)
RECURSIVE Flatten(_)
\* the concatenation of a list of lists
Flatten(lists) == IF Len(lists) = 0 THEN <<>> ELSE Head(lists) \o Flatten(Tail(lists))

\* result['tables']: one table_info per table of the model
ScriptTables(b) ==
    [i \in 1..Len(b.tables) |->
        [name |-> b.tables[i].name,
         row_count |-> b.tables[i].row_count,
         column_count |-> Len(b.tables[i].columns),
         columns |-> [j \in 1..Len(b.tables[i].columns) |->
                        [name |-> b.tables[i].columns[j],
                         data_type |-> "Unknown",
                         is_calculated |-> FALSE]]]]

\* result['measures']: the measures of every table, tagged with the table
ScriptMeasures(b) ==
    Flatten([i \in 1..Len(b.tables) |->
        [j \in 1..Len(b.tables[i].measures) |->
            [table_name |-> b.tables[i].name,
             name |-> b.tables[i].measures[j].name,
             expression |-> b.tables[i].measures[j].expression]]])

\* result['relationships']
ScriptRelationships(b) == b.relationships

\* result['metadata']: the counts of what was extracted
ScriptMetadata(b) ==
    [table_count |-> Len(ScriptTables(b)),
     measure_count |-> Len(ScriptMeasures(b)),
     relationship_count |-> Len(ScriptRelationships(b))]

\* the object the script prints after the SUCCESS: marker
Envelope(b) ==
    [tables |-> ScriptTables(b),
     metadata |-> ScriptMetadata(b),
     schema |-> <<>>,
     measures |-> ScriptMeasures(b),
     relationships |-> ScriptRelationships(b)]

\* an object that lacks the tables key
EnvelopeWithoutTables(b) ==
    [metadata |-> ScriptMetadata(b),
     schema |-> <<>>,
     measures |-> ScriptMeasures(b),
     relationships |-> ScriptRelationships(b)]

\* one printed line: its leading tag and the text after the tag
Line(tag, body) == [tag |-> tag, body |-> body]
Diag(tag) == Line(tag, GarbageText)
SuccessMarker == "SUCCESS:"
\* print(f"TABLE_{i}: {table_name}"): the text after the tag is the name
Echo(tag, name) == Line(tag, [text |-> "echo", value |-> name])
\* the characters of the marker
MarkerText == <<"S", "U", "C", "C", "E", "S", "S", ":">>
\* whether the marker occurs in the printed line
LineHasMarker(l) ==
    \/ l.tag = SuccessMarker
    \/ l.body.text = "echo" /\ Contains(MarkerText, l.body.value)

(***************************************************************************)
(* A run of the script on a file the library opens.  Each of the four      *)
(* sub-extractions is in a try block of its own: f.failed holds the ones   *)
(* that raise, and f.done the number of tables appended to result          *)
(* ['tables'] when the tables block is left.                               *)
(***************************************************************************)
SubExtractions == {"tables", "measures", "relationships", "metadata"}

ScriptFailures(b) ==
    {f \in [failed : SUBSET SubExtractions, done : 0..Len(b.tables)] :
        IF "tables" \in f.failed
        THEN f.done < Len(b.tables) \/ Len(b.tables) = 0
        ELSE f.done = Len(b.tables)}

\* the same lists with the counts of what the file holds, not of what was
\* extracted
ScriptResultFileCounts(b, f) ==
    [tables |-> SubSeq(ScriptTables(b), 1, f.done),
     metadata |-> ScriptMetadata(b),
     schema |-> <<>>,
     measures |-> IF "measures" \in f.failed THEN <<>> ELSE ScriptMeasures(b),
     relationships |-> IF "relationships" \in f.failed THEN <<>>
                       ELSE ScriptRelationships(b)]

\* result when print("SUCCESS:" + json.dumps(result)) is reached
ScriptResult(b, f) ==
    LET ts == SubSeq(ScriptTables(b), 1, f.done)
        ms == IF "measures" \in f.failed THEN <<>> ELSE ScriptMeasures(b)
        rs == IF "relationships" \in f.failed THEN <<>> ELSE ScriptRelationships(b)
    IN  [tables |-> ts,
         metadata |-> [table_count |-> Len(ts), measure_count |-> Len(ms),
                       relationship_count |-> Len(rs)],
         schema |-> <<>>,
         measures |-> ms,
         relationships |-> rs]

\* the lines the run prints; the text of an exception is taken not to
\* hold the marker
ScriptStdout(b, f) ==
    (IF f.done = 0 /\ "tables" \in f.failed THEN <<>> ELSE <<Diag("TABLES_TYPE:")>>)
    \o Flatten([i \in 1..f.done |->
                  <<Echo("TABLE_", b.tables[i].name), Diag("TABLE_DETAILS_TYPE:")>>])
    \o (IF "tables" \in f.failed THEN <<Diag("ERROR_GETTING_TABLES:")>> ELSE <<>>)
    \o <<Diag(IF "measures" \in f.failed
              THEN "ERROR_GETTING_MEASURES:" ELSE "MEASURES_TYPE:"),
         Diag(IF "relationships" \in f.failed
              THEN "ERROR_GETTING_RELATIONSHIPS:" ELSE "RELATIONSHIPS_TYPE:"),
         Diag(IF "metadata" \in f.failed
              THEN "ERROR_GETTING_METADATA:" ELSE "METADATA_TYPE:"),
         Line(SuccessMarker, JsonDumps(ScriptResult(b, f)))>>

(***************************************************************************)
(* What subprocess.run can give for a file: it raises TimeoutExpired after *)
(* 30 seconds, or returns an exit code and the captured stdout.            *)
(***************************************************************************)
ProcResult(kind, timeout, rc, out) ==
    [kind |-> kind, timeout |-> timeout, returncode |-> rc, stdout |-> out]

ProcOutcomes(c) ==
    {ProcResult("timeout", TRUE, 0, <<>>),
     ProcResult("nonzero", FALSE, 1, <<>>),
     ProcResult("error_marker", FALSE, 0, <<Diag("ERROR:"), Diag("TRACEBACK:")>>),
     ProcResult("bad_json", FALSE, 0, <<Diag("TABLES_TYPE:"), Line(SuccessMarker, GarbageText)>>)}
    \cup
    (IF Loadable(c)
     THEN {ProcResult("ok", FALSE, 0,
              <<Diag("TABLES_TYPE:"), Diag("METADATA_TYPE:"),
                Line(SuccessMarker, JsonDumps(Envelope(Bundle(c))))>>),
           ProcResult("nonzero_after_marker", FALSE, 1,
              <<Line(SuccessMarker, JsonDumps(Envelope(Bundle(c))))>>),
           ProcResult("missing_key", FALSE, 0,
              <<Line(SuccessMarker, JsonDumps(EnvelopeWithoutTables(Bundle(c))))>>)}
     ELSE {})

ScriptRun(c, f) == ProcResult("ok", FALSE, 0, ScriptStdout(Bundle(c), f))

\* the runs of the script that reach its last print
ScriptOutcomes(c) ==
    IF Loadable(c) THEN {ScriptRun(c, f) : f \in ScriptFailures(Bundle(c))} ELSE {}

\* "SUCCESS:" in result.stdout
HasMarker(out) == \E i \in 1..Len(out) : LineHasMarker(out[i])

\* result.stdout.find("SUCCESS:"): the first occurrence
FindMarker(out) ==
    CHOOSE i \in 1..Len(out) :
        /\ LineHasMarker(out[i])
        /\ \A j \in 1..(i - 1) : ~LineHasMarker(out[j])

\* json.loads(result.stdout[json_start:].strip()): everything after the first
\* marker must be one JSON text, so a line after it makes the parse fail
ParsePayload(out) ==
    LET i == FindMarker(out)
    IN  IF i = Len(out) /\ out[i].tag = SuccessMarker THEN JsonLoads(out[i].body)
        ELSE [ok |-> FALSE, value |-> <<>>]

\* data['tables'], data['metadata'], data['measures'], data['relationships']
\* raise KeyError unless all are present; data.get('schema', []) does not
RequiredKeys == {"tables", "metadata", "measures", "relationships"}
HasRequiredKeys(data) == RequiredKeys \subseteq DOMAIN data

\* the test without the exit code: a marker on stdout is taken as success
ExtractionStoredIgnoringExit(p) ==
    /\ ~p.timeout
    /\ HasMarker(p.stdout)
    /\ ParsePayload(p.stdout).ok
    /\ HasRequiredKeys(ParsePayload(p.stdout).value)

\* whether lines 261-286 reach the INSERT: exit code 0, marker present,
\* payload parsed, keys present
ExtractionStored(p) ==
    /\ ~p.timeout
    /\ p.returncode = 0
    /\ HasMarker(p.stdout)
    /\ ParsePayload(p.stdout).ok
    /\ HasRequiredKeys(ParsePayload(p.stdout).value)

(***************************************************************************)
(* State.                                                                  *)
(***************************************************************************)
VARIABLES
    variant,         \* "mcp" or "norm": which dashboard runs
    available,       \* PBIXRAY_AVAILABLE of the normalized variant
    schema,          \* which CREATE TABLE made the projects table of the
                     \* database file: "mcp" or "norm"
    projects,        \* the rows of the projects table (committed)
    tables,          \* normalized variant: rows of tables
    columns,         \* normalized variant: rows of columns
    measures,        \* normalized variant: rows of measures
    relationships,   \* normalized variant: rows of relationships
    power_queries,   \* normalized variant: rows of power_queries
    seq,             \* sqlite_sequence: last AUTOINCREMENT id per table
    now,             \* the clock datetime.now() reads
    sess,            \* per session: the analyze call in progress, its
                     \* result, and st.session_state.confirm_clear
    view             \* what the last read operation returned

vars == <<variant, available, schema, projects, tables, columns, measures,
          relationships, power_queries, seq, now, sess, view>>
children == <<tables, columns, measures, relationships, power_queries>>
constvars == <<variant, available, schema>>

NoRow == [found |-> FALSE, id |-> None, file_hash |-> <<>>]
NotFetched == [found |-> FALSE, id |-> None]
NoView == [op |-> "none", term |-> <<>>, scope |-> "none", rows |-> <<>>]
IdleSession ==
    [pc |-> "idle", name |-> <<>>, file |-> 0, existing |-> NotFetched,
     result |-> None, extractor |-> "idle", confirm_clear |-> FALSE,
     \* the upload page: uploaded_files, the success and error messages
     \* shown so far, and the temporary files that exist
     uploaded |-> <<>>, messages |-> <<>>, tmp_files |-> {}]

Init ==
    /\ variant \in {"mcp", "norm"}
    /\ available \in (IF variant = "norm" THEN BOOLEAN ELSE {TRUE})
    /\ schema = variant
    /\ projects = {}
    /\ tables = {}
    /\ columns = {}
    /\ measures = {}
    /\ relationships = {}
    /\ power_queries = {}
    /\ seq = [t \in {"projects", "tables", "columns", "measures",
                     "relationships", "power_queries"} |-> 0]
    /\ now = 0
    /\ sess = [s \in Sessions |-> IdleSession]
    /\ view = NoView

(***************************************************************************)
(* SQL on the projects table.                                              *)
(***************************************************************************)
\* SELECT id, file_hash FROM projects WHERE name = ?  (fetchone)
SelectByName(rows, n) ==
    IF \E r \in rows : r.name = n
    THEN LET r == CHOOSE r \in rows : r.name = n
         IN  [found |-> TRUE, id |-> r.id, file_hash |-> r.file_hash]
    ELSE NoRow

\* DELETE FROM projects WHERE name = ?
DeleteByName(rows, n) == {r \in rows : r.name # n}

\* a delete that removes nothing
DeleteByIdKeep(rows, id) == rows

\* DELETE FROM projects WHERE id = ?
DeleteById(rows, id) == {r \in rows : r.id # id}

\* an update of the fields of the stored row of that name, which keeps
\* its id
UpdateInPlace(rows, row) ==
    IF \E r \in rows : r.name = row.name
    THEN LET old == CHOOSE r \in rows : r.name = row.name
         IN  (rows \ {old}) \cup {[row EXCEPT !.id = old.id]}
    ELSE rows \cup {row}

\* a plain INSERT into a table whose name column is not UNIQUE
InsertOnly(rows, row) == rows \cup {row}

\* INSERT OR REPLACE INTO projects: name is UNIQUE, so the row that holds
\* the name is removed before the new row is added
InsertOrReplace(rows, row) == {r \in rows : r.name # row.name} \cup {row}

\* the comparison inverted: a changed file is taken for the stored one
SameHashInverted(existing, c) == existing.found /\ existing.file_hash # FileHash(c)

\* existing and existing[1] == file_hash
SameHash(existing, c) == existing.found /\ existing.file_hash = FileHash(c)

\* existing[0] or cursor.lastrowid: the id of the row that was replaced
ExistingIdOr(lastrowid, existing) == IF existing.found THEN existing.id ELSE lastrowid

\* cursor.lastrowid or existing[0]
LastRowIdOr(lastrowid, existing) == IF lastrowid # 0 THEN lastrowid ELSE existing.id

\* the calls that have started and not returned
InFlight == Cardinality({s \in Sessions : sess[s].pc \notin {"idle", "done"}})
CanStart(s, cap) ==
    /\ sess[s].pc \in {"idle", "done"}
    /\ seq.projects + InFlight < cap

\* a session entering analyze with its arguments; it keeps confirm_clear
Entered(s, n, c) ==
    [sess EXCEPT ![s] = [IdleSession EXCEPT !.pc = "select", !.name = n, !.file = c,
                            !.confirm_clear = sess[s].confirm_clear]]
\* the call returns: only the name, the value returned and how the
\* extractor ended are kept
Returned(s, result, extractor) ==
    [sess EXCEPT ![s].pc = "done", ![s].file = 0, ![s].existing = NotFetched,
                 ![s].result = result, ![s].extractor = extractor]

(***************************************************************************)
(* The denormalized variant: MCPStreamlitBridge.analyze_pbix_file_with_mcp *)
(* and the buttons of its upload page.                                     *)
(***************************************************************************)
\* the row of lines 268-284; json.dumps(data.get('schema', []))
McpRow(id, n, c, t, data) ==
    [id |-> id, name |-> n, file_hash |-> FileHash(c), last_analyzed |-> t,
     tables_data |-> JsonDumps(data.tables),
     metadata_data |-> JsonDumps(data.metadata),
     schema_data |-> JsonDumps(IF "schema" \in DOMAIN data THEN data.schema ELSE <<>>),
     measures_data |-> JsonDumps(data.measures),
     relationships_data |-> JsonDumps(data.relationships)]

\* a call of analyze_pbix_file_with_mcp(file_path, project_name) is entered
\* (lines 71-76: the file is hashed)
McpCall(s, n, c, cap) ==
    /\ variant = "mcp"
    /\ CanStart(s, cap)
    /\ sess' = Entered(s, n, c)
    /\ view' = NoView
    /\ UNCHANGED <<constvars, projects, children, seq, now>>

\* "Analyze Files (Replace if exists)", lines 577-595, for one uploaded
\* file: the handler deletes the row of that name and commits, then enters
\* analyze_pbix_file_with_mcp
AnalyzeFilesClick(s, n, c, cap) ==
    /\ variant = "mcp"
    /\ CanStart(s, cap)
    /\ projects' = DeleteByName(projects, n)
    /\ sess' = Entered(s, n, c)
    /\ view' = NoView
    /\ UNCHANGED <<constvars, children, seq, now>>

\* lines 78-88: look the name up and return the stored id when the hash is
\* the stored one; otherwise go on to lines 90-93 (a row is stored) or to
\* the extraction (none is)
McpSelect(s) ==
    /\ variant = "mcp"
    /\ sess[s].pc = "select"
    /\ LET existing == SelectByName(projects, sess[s].name)
       IN  sess' = IF SameHash(existing, sess[s].file)
                   THEN Returned(s, existing.id, "idle")
                   ELSE [sess EXCEPT
                            ![s].pc = IF existing.found THEN "delete" ELSE "run",
                            ![s].existing = [found |-> existing.found, id |-> existing.id]]
    /\ view' = NoView
    /\ UNCHANGED <<constvars, projects, children, seq, now>>

\* lines 90-93: DELETE FROM projects WHERE name = ?, commit
McpDelete(s) ==
    /\ variant = "mcp"
    /\ sess[s].pc = "delete"
    /\ projects' = DeleteByName(projects, sess[s].name)
    /\ sess' = [sess EXCEPT ![s].pc = "run"]
    /\ view' = NoView
    /\ UNCHANGED <<constvars, children, seq, now>>

\* how the extractor ended
ExtractorEnd(p) ==
    IF p.timeout THEN "timed-out"
    ELSE IF p.kind = "ok" THEN "succeeded"
    ELSE "failed"

\* lines 252-309: the subprocess ends with p (or times out); on success the
\* payload is stored with INSERT OR REPLACE and committed, and the call
\* returns cursor.lastrowid; otherwise it returns None
McpRun(s, p) ==
    /\ variant = "mcp"
    /\ sess[s].pc = "run"
    /\ p \in ProcOutcomes(sess[s].file) \cup ScriptOutcomes(sess[s].file)
    /\ IF ExtractionStored(p)
       THEN LET id == seq.projects + 1
                row == McpRow(id, sess[s].name, sess[s].file, now + 1,
                              ParsePayload(p.stdout).value)
            IN  /\ projects' = InsertOrReplace(projects, row)
                /\ seq' = [seq EXCEPT !.projects = id]
                /\ now' = now + 1
                /\ sess' = Returned(s, LastRowIdOr(id, sess[s].existing), ExtractorEnd(p))
       ELSE /\ sess' = Returned(s, None, ExtractorEnd(p))
            /\ UNCHANGED <<projects, seq, now>>
    /\ view' = NoView
    /\ UNCHANGED <<constvars, children>>

\* "Clear All Data", lines 529-542
ClearAllClick(s) ==
    /\ variant = "mcp"
    /\ sess[s].pc \in {"idle", "done"}
    /\ IF sess[s].confirm_clear
       THEN /\ projects' = {}
            /\ sess' = [sess EXCEPT ![s].confirm_clear = FALSE]
       ELSE /\ sess' = [sess EXCEPT ![s].confirm_clear = TRUE]
            /\ UNCHANGED projects
    /\ view' = NoView
    /\ UNCHANGED <<constvars, children, seq, now>>

\* the delete button of one listed project, lines 562-570; the page may
\* list a row that has been replaced since, so id is any id handed out
DeleteClick(s, id) ==
    /\ variant = "mcp"
    /\ sess[s].pc \in {"idle", "done"}
    /\ id \in 1..seq.projects
    /\ projects' = DeleteById(projects, id)
    /\ view' = NoView
    /\ UNCHANGED <<constvars, children, seq, now, sess>>

(***************************************************************************)
(* The normalized variant: PowerBIDependencyAnalyzer.analyze_pbix_file.    *)
(* Its statements from the INSERT OR REPLACE to the commit are one SQLite  *)
(* transaction: they become visible together at the commit, and are rolled *)
(* back when the call leaves through the except clause.                    *)
(***************************************************************************)
\* DELETE FROM <child table> WHERE project_id = ?
ClearChildRows(rows, pid) == {r \in rows : r.project_id # pid}

\* DELETE FROM columns WHERE table_id IN
\*   (SELECT id FROM tables WHERE project_id = ?), run on the tables table
\* as the previous DELETE left it
ClearColumnRows(rows, tableRows, pid) ==
    {r \in rows : r.table_id \notin {t.id : t \in {u \in tableRows : u.project_id = pid}}}

ColumnLists(b) == [i \in 1..Len(b.tables) |-> b.tables[i].columns]
MeasureLists(b) == [i \in 1..Len(b.tables) |-> b.tables[i].measures]

\* len([m for table in model.tables for m in table.measures])
CountMeasures(b) == SumLen(MeasureLists(b), Len(b.tables))

\* the project row of lines 149-161
NormRow(id, n, c, t, b) ==
    [id |-> id, name |-> n, file_hash |-> FileHash(c), last_analyzed |-> t,
     table_count |-> Len(b.tables), measure_count |-> CountMeasures(b)]

\* the rows lines 173-209 insert, with the ids AUTOINCREMENT hands out
NewTableRows(b, pid) ==
    {[id |-> seq.tables + i, project_id |-> pid,
      table_name |-> b.tables[i].name, row_count |-> b.tables[i].row_count,
      column_count |-> Len(b.tables[i].columns)] : i \in 1..Len(b.tables)}
NewColumnRows(b) ==
    UNION {{[id |-> seq.columns + SumLen(ColumnLists(b), i - 1) + j,
             table_id |-> seq.tables + i,
             column_name |-> b.tables[i].columns[j],
             data_type |-> "Unknown", is_calculated |-> FALSE]
            : j \in 1..Len(b.tables[i].columns)} : i \in 1..Len(b.tables)}
NewMeasureRows(b, pid) ==
    UNION {{[id |-> seq.measures + SumLen(MeasureLists(b), i - 1) + j,
             project_id |-> pid,
             table_name |-> b.tables[i].name,
             measure_name |-> b.tables[i].measures[j].name,
             dax_expression |-> b.tables[i].measures[j].expression]
            : j \in 1..Len(b.tables[i].measures)} : i \in 1..Len(b.tables)}
NewRelationshipRows(b, pid) ==
    {[id |-> seq.relationships + k, project_id |-> pid,
      from_table |-> b.relationships[k].from_table,
      from_column |-> b.relationships[k].from_column,
      to_table |-> b.relationships[k].to_table,
      to_column |-> b.relationships[k].to_column,
      cardinality |-> b.relationships[k].cardinality] : k \in 1..Len(b.relationships)}
NewQueryRows(b, pid) ==
    {[id |-> seq.power_queries + k, project_id |-> pid,
      query_name |-> b.queries[k].name,
      m_expression |-> b.queries[k].expression] : k \in 1..Len(b.queries)}

\* a call of analyze_pbix_file(file_path, project_name) is entered
NormCall(s, n, c, cap) ==
    /\ variant = "norm"
    /\ CanStart(s, cap)
    /\ sess' = Entered(s, n, c)
    /\ view' = NoView
    /\ UNCHANGED <<constvars, projects, children, seq, now>>

\* lines 124-146: return None without pbixray or when the file does not
\* load; return the stored id when the hash is the stored one
NormSelect(s) ==
    /\ variant = "norm"
    /\ sess[s].pc = "select"
    /\ LET existing == SelectByName(projects, sess[s].name)
       IN  sess' = IF ~available \/ ~Loadable(sess[s].file)
                   THEN Returned(s, None, "failed")
                   ELSE IF SameHash(existing, sess[s].file)
                   THEN Returned(s, existing.id, "idle")
                   ELSE [sess EXCEPT
                            ![s].pc = "store",
                            ![s].existing = [found |-> existing.found, id |-> existing.id]]
    /\ view' = NoView
    /\ UNCHANGED <<constvars, projects, children, seq, now>>

\* lines 148-214: the transaction, committed
NormStore(s) ==
    /\ variant = "norm"
    /\ sess[s].pc = "store"
    \* the INSERT names the columns table_count and measure_count
    /\ schema = "norm"
    /\ LET b == Bundle(sess[s].file)
           pid == seq.projects + 1
           tables1 == ClearChildRows(tables, pid)
       IN  /\ projects' = InsertOrReplace(projects,
                              NormRow(pid, sess[s].name, sess[s].file, now + 1, b))
           /\ tables' = tables1 \cup NewTableRows(b, pid)
           /\ columns' = ClearColumnRows(columns, tables1, pid) \cup NewColumnRows(b)
           /\ measures' = ClearChildRows(measures, pid) \cup NewMeasureRows(b, pid)
           /\ relationships' =
                  ClearChildRows(relationships, pid) \cup NewRelationshipRows(b, pid)
           /\ power_queries' =
                  ClearChildRows(power_queries, pid) \cup NewQueryRows(b, pid)
           /\ seq' = [projects |-> pid,
                      tables |-> seq.tables + Len(b.tables),
                      columns |-> seq.columns + SumLen(ColumnLists(b), Len(b.tables)),
                      measures |-> seq.measures + CountMeasures(b),
                      relationships |-> seq.relationships + Len(b.relationships),
                      power_queries |-> seq.power_queries + Len(b.queries)]
           /\ now' = now + 1
           /\ sess' = Returned(s, LastRowIdOr(pid, sess[s].existing), "succeeded")
    /\ view' = NoView
    /\ UNCHANGED constvars

\* lines 216-218: a statement of the transaction raises (a storage error,
\* a locked database); nothing of it is committed and the call returns None
NormStoreFail(s) ==
    /\ variant = "norm"
    /\ sess[s].pc = "store"
    /\ sess' = Returned(s, None, "failed")
    /\ view' = NoView
    /\ UNCHANGED <<constvars, projects, children, seq, now>>

\* one step of a session that writes, with names among the first nn of
\* NamePool, files among the contents 0..nc, and cap calls at most
Write(s, nn, nc, cap) ==
    \/ \E n \in NamesUpTo(nn), c \in ContentsUpTo(nc) : McpCall(s, n, c, cap)
    \/ \E n \in NamesUpTo(nn), c \in ContentsUpTo(nc) : AnalyzeFilesClick(s, n, c, cap)
    \/ McpSelect(s)
    \/ McpDelete(s)
    \/ \E p \in UNION {ProcOutcomes(c) : c \in ContentsUpTo(nc)} : McpRun(s, p)
    \/ ClearAllClick(s)
    \/ \E id \in 1..cap : DeleteClick(s, id)
    \/ \E n \in NamesUpTo(nn), c \in ContentsUpTo(nc) : NormCall(s, n, c, cap)
    \/ NormSelect(s)
    \/ NormStore(s)
    \/ NormStoreFail(s)

Next == \E s \in Sessions : Write(s, NumNames, NumContents, MaxInserts)

\* two sessions that share the database
Spec == Init /\ [][Next]_vars


(***************************************************************************)
(* The read operations.  A read leaves its result in view; the next write  *)
(* step clears view, so view is always a report of the current store.      *)
(***************************************************************************)
\* sort_values('project_count') with the default ascending=True
OrderByCountAsc(rows) ==
    {f \in Perms(rows) :
        \A i \in 1..(Len(f) - 1) : f[i].project_count <= f[i + 1].project_count}

\* DataFrame.sort_values('project_count', ascending=False) and
\* ORDER BY project_count DESC: the rows by descending count, rows of equal
\* count in any order
OrderByCountDesc(rows) ==
    {f \in Perms(rows) :
        \A i \in 1..(Len(f) - 1) : f[i].project_count >= f[i + 1].project_count}

\* json.loads of a stored blob inside try/except JSONDecodeError: continue
LoadedList(blob) == IF JsonLoads(blob).ok THEN JsonLoads(blob).value ELSE <<>>

\* the keys one project row adds to table_usage, measure_usage, column_usage
\* (mcp_analyzer.py, lines 329-339, 365-375, 401-414)
McpKeys(p, kind) ==
    CASE kind = "table" -> {t.name : t \in Range(LoadedList(p.tables_data))}
      [] kind = "measure" -> {m.name : m \in Range(LoadedList(p.measures_data))}
      [] kind = "column" ->
            UNION {{t.name \o <<".">> \o col.name : col \in Range(t.columns)}
                   : t \in Range(LoadedList(p.tables_data))}

\* the blob a report of the kind reads
BlobOf(p, kind) == IF kind = "measure" THEN p.measures_data ELSE p.tables_data

\* except json.JSONDecodeError: break -- the rows after an unparseable blob
\* are not read
McpUsageBreak(kind, key) ==
    {p.name : p \in {q \in projects :
        /\ key \in McpKeys(q, kind)
        /\ \A r \in projects : r.id < q.id => JsonLoads(BlobOf(r, kind)).ok}}

\* table_usage[key]: the set of project names
McpUsage(kind, key) == {p.name : p \in {q \in projects : key \in McpKeys(q, kind)}}

\* ','.join(sorted(project_set)): the separator without its space
McpProjectsFieldComma(owners) == Join(Sorted(owners), Comma)

\* ', '.join(sorted(project_set))
McpProjectsField(owners) == Join(Sorted(owners), CommaSpace)

\* len(project_set) > 0: every name is reported
IsSharedAny(owners) == Cardinality(owners) > 0

\* len(project_set) > 1
IsShared(owners) == Cardinality(owners) > 1

\* the list "shared" of get_shared_tables / _measures / _columns
McpSharedRows(kind) ==
    {[name |-> k,
      project_count |-> Cardinality(McpUsage(kind, k)),
      projects |-> McpProjectsField(McpUsage(kind, k))]
     : k \in {k \in UNION {McpKeys(p, kind) : p \in projects} : IsShared(McpUsage(kind, k))}}

\* what MCPStreamlitBridge.get_shared_* can return
McpSharedOutcomes(kind) == OrderByCountDesc(McpSharedRows(kind))

\* the names of all child rows, whatever project id they carry
NormKeysAnyProject(p, kind) ==
    CASE kind = "table" -> {t.table_name : t \in tables}
      [] kind = "measure" -> {m.measure_name : m \in measures}

\* normalized variant: the names of the child rows joined to a project row
\* (FROM tables t JOIN projects p ON t.project_id = p.id, likewise measures)
NormKeys(p, kind) ==
    CASE kind = "table" -> {t.table_name : t \in {u \in tables : u.project_id = p.id}}
      [] kind = "measure" -> {m.measure_name : m \in {u \in measures : u.project_id = p.id}}

\* the distinct p.name of one group
NormUsage(kind, key) == {p.name : p \in {q \in projects : key \in NormKeys(q, kind)}}

\* GROUP_CONCAT(DISTINCT p.name): the names joined with ',', in an order
\* SQLite does not specify
GroupConcat(owners) == {Join(f, Comma) : f \in Perms(owners)}

\* HAVING COUNT(DISTINCT p.name) > 1
NormSharedKeys(kind) ==
    {k \in UNION {NormKeys(p, kind) : p \in projects} : Cardinality(NormUsage(kind, k)) > 1}

\* what PowerBIDependencyAnalyzer.get_shared_tables / _measures can return
NormSharedOutcomes(kind) ==
    LET keys == NormSharedKeys(kind)
        fields == UNION {GroupConcat(NormUsage(kind, k)) : k \in keys}
        choices == {g \in [keys -> fields] : \A k \in keys : g[k] \in GroupConcat(NormUsage(kind, k))}
    IN  UNION {OrderByCountDesc({[name |-> k,
                                  project_count |-> Cardinality(NormUsage(kind, k)),
                                  projects |-> g[k]] : k \in keys}) : g \in choices}

RECURSIVE ByLastAnalyzedAsc(_)
\* the same rows, oldest analysis first
ByLastAnalyzedAsc(rows) ==
    IF rows = {} THEN <<>>
    ELSE LET r == CHOOSE r \in rows : \A q \in rows : r.last_analyzed =< q.last_analyzed
         IN  <<r>> \o ByLastAnalyzedAsc(rows \ {r})

RECURSIVE ByLastAnalyzedDesc(_)
\* SELECT * FROM projects ORDER BY last_analyzed DESC
ByLastAnalyzedDesc(rows) ==
    IF rows = {} THEN <<>>
    ELSE LET r == CHOOSE r \in rows : \A q \in rows : r.last_analyzed >= q.last_analyzed
         IN  <<r>> \o ByLastAnalyzedDesc(rows \ {r})

\* get_all_projects of either variant
GetAllProjects ==
    /\ view' = [op |-> "get_all_projects", term |-> <<>>, scope |-> "none",
                rows |-> ByLastAnalyzedDesc(projects)]
    /\ UNCHANGED <<constvars, projects, children, seq, now, sess>>

SharedView(op, rows) == [op |-> op, term |-> <<>>, scope |-> "none", rows |-> rows]

GetSharedTables ==
    /\ \E rows \in (IF variant = "mcp" THEN McpSharedOutcomes("table")
                    ELSE NormSharedOutcomes("table")) :
          view' = SharedView("get_shared_tables", rows)
    /\ UNCHANGED <<constvars, projects, children, seq, now, sess>>

GetSharedMeasures ==
    /\ \E rows \in (IF variant = "mcp" THEN McpSharedOutcomes("measure")
                    ELSE NormSharedOutcomes("measure")) :
          view' = SharedView("get_shared_measures", rows)
    /\ UNCHANGED <<constvars, projects, children, seq, now, sess>>

GetSharedColumns ==
    /\ variant = "mcp"
    /\ \E rows \in McpSharedOutcomes("column") :
          view' = SharedView("get_shared_columns", rows)
    /\ UNCHANGED <<constvars, projects, children, seq, now, sess>>

(***************************************************************************)
(* MCPStreamlitBridge.analyze_impact(search_term, search_type).            *)
(***************************************************************************)
\* the choices of the "Search in:" selectbox
Scopes == {"all", "table", "measure", "column"}
\* the search terms the model tries
Terms == {<<"s", "a">>, <<"A", "t">>, <<"o">>}

RECURSIVE ByRowid(_)
\* SELECT ... FROM projects without ORDER BY: the rows in rowid order
ByRowid(rows) ==
    IF rows = {} THEN <<>>
    ELSE LET r == CHOOSE r \in rows : \A q \in rows : r.id <= q.id
         IN  <<r>> \o ByRowid(rows \ {r})

\* the matches of the columns of one table (lines 461-468)
ColumnHits(p, t, termLower) ==
    LET hit == SelectSeq(t.columns, LAMBDA col : Contains(termLower, Lower(col.name)))
    IN  [i \in 1..Len(hit) |->
            [project_name |-> p.name, table_name |-> t.name,
             column_name |-> hit[i].name, match_type |-> "Column Name"]]

\* the expression test as an elif of the name test: a measure found by its
\* name is not looked at again
ImpactOfProjectElif(p, termLower, scope) ==
    LET tparse == JsonLoads(p.tables_data)
        mparse == JsonLoads(p.measures_data)
        inTables == scope \in {"all", "table"}
        inMeasures == scope \in {"all", "measure"}
        \* except json.JSONDecodeError: continue  (line 469)
        skipped == inTables /\ ~tparse.ok
        tlist == IF inTables /\ tparse.ok THEN tparse.value ELSE <<>>
        mlist == IF ~skipped /\ inMeasures /\ mparse.ok THEN mparse.value ELSE <<>>
        thit == SelectSeq(tlist, LAMBDA t : Contains(termLower, Lower(t.name)))
        mhit == SelectSeq(mlist, LAMBDA m : Contains(termLower, Lower(m.name)))
        xhit == SelectSeq(mlist, LAMBDA m : /\ ~Contains(termLower, Lower(m.name))
                                            /\ Contains(termLower, Lower(m.expression)))
    IN  [projects_using_table |->
            [i \in 1..Len(thit) |->
                [project_name |-> p.name, table_name |-> thit[i].name,
                 match_type |-> "Table Name"]],
         projects_using_column |->
            Flatten([i \in 1..Len(tlist) |-> ColumnHits(p, tlist[i], termLower)]),
         projects_with_measure |->
            [i \in 1..Len(mhit) |->
                [project_name |-> p.name, table_name |-> mhit[i].table_name,
                 measure_name |-> mhit[i].name, dax_expression |-> mhit[i].expression,
                 match_type |-> "Measure Name"]],
         measures_referencing_item |->
            [i \in 1..Len(xhit) |->
                [project_name |-> p.name, measure_name |-> xhit[i].name,
                 dax_expression |-> xhit[i].expression,
                 match_type |-> "DAX Expression Reference"]]]

\* what one project row adds to the four lists (lines 446-497)
ImpactOfProject(p, termLower, scope) ==
    LET tparse == JsonLoads(p.tables_data)
        mparse == JsonLoads(p.measures_data)
        inTables == scope \in {"all", "table"}
        inMeasures == scope \in {"all", "measure"}
        \* except json.JSONDecodeError: continue  (line 469)
        skipped == inTables /\ ~tparse.ok
        tlist == IF inTables /\ tparse.ok THEN tparse.value ELSE <<>>
        mlist == IF ~skipped /\ inMeasures /\ mparse.ok THEN mparse.value ELSE <<>>
        thit == SelectSeq(tlist, LAMBDA t : Contains(termLower, Lower(t.name)))
        mhit == SelectSeq(mlist, LAMBDA m : Contains(termLower, Lower(m.name)))
        xhit == SelectSeq(mlist, LAMBDA m : Contains(termLower, Lower(m.expression)))
    IN  [projects_using_table |->
            [i \in 1..Len(thit) |->
                [project_name |-> p.name, table_name |-> thit[i].name,
                 match_type |-> "Table Name"]],
         projects_using_column |->
            Flatten([i \in 1..Len(tlist) |-> ColumnHits(p, tlist[i], termLower)]),
         projects_with_measure |->
            [i \in 1..Len(mhit) |->
                [project_name |-> p.name, table_name |-> mhit[i].table_name,
                 measure_name |-> mhit[i].name, dax_expression |-> mhit[i].expression,
                 match_type |-> "Measure Name"]],
         measures_referencing_item |->
            [i \in 1..Len(xhit) |->
                [project_name |-> p.name, measure_name |-> xhit[i].name,
                 dax_expression |-> xhit[i].expression,
                 match_type |-> "DAX Expression Reference"]]]

RECURSIVE ImpactOfProjects(_, _, _)
\* the four lists after the loop over the rows
ImpactOfProjects(rowSeq, termLower, scope) ==
    IF Len(rowSeq) = 0
    THEN [projects_using_table |-> <<>>, projects_using_column |-> <<>>,
          projects_with_measure |-> <<>>, measures_referencing_item |-> <<>>]
    ELSE LET h == ImpactOfProject(Head(rowSeq), termLower, scope)
             r == ImpactOfProjects(Tail(rowSeq), termLower, scope)
         IN  [projects_using_table |-> h.projects_using_table \o r.projects_using_table,
              projects_using_column |-> h.projects_using_column \o r.projects_using_column,
              projects_with_measure |-> h.projects_with_measure \o r.projects_with_measure,
              measures_referencing_item |->
                  h.measures_referencing_item \o r.measures_referencing_item]

\* analyze_impact(search_term, search_type)
McpAnalyzeImpact(term, scope) == ImpactOfProjects(ByRowid(projects), Lower(term), scope)

AnalyzeImpact(term, scope) ==
    /\ variant = "mcp"
    /\ view' = [op |-> "analyze_impact", term |-> term, scope |-> scope,
                rows |-> McpAnalyzeImpact(term, scope)]
    /\ UNCHANGED <<constvars, projects, children, seq, now, sess>>

(***************************************************************************)
(* PowerBIDependencyAnalyzer.analyze_impact(table_name, measure_name,      *)
(* column_name); the page passes exactly one of the three.                 *)
(***************************************************************************)
\* which keyword argument is given
ImpactKinds == {"table", "measure", "column"}

\* m.dax_expression LIKE '%term%': SQLite's LIKE ignores the case of ASCII
\* letters (the terms of the model hold no % and no _)
SqlLike(term, text) == Contains(Lower(term), Lower(text))

\* the project row a child row joins to (JOIN ... ON p.id = x.project_id)
JoinedProjects(pid) == {p \in projects : p.id = pid}

\* lines 264-283; SELECT DISTINCT gives each row once, in no stated order
NormTableImpact(term) ==
    [projects_using_table |->
        UNION {{p.name : p \in JoinedProjects(t.project_id)}
               : t \in {u \in tables : u.table_name = term}},
     measures_referencing_table |->
        UNION {{[project_name |-> p.name, measure_name |-> m.measure_name,
                 dax_expression |-> m.dax_expression] : p \in JoinedProjects(m.project_id)}
               : m \in {u \in measures : SqlLike(term, u.dax_expression)}}]

\* lines 285-294
NormMeasureImpact(term) ==
    [projects_with_measure |->
        UNION {{[project_name |-> p.name, table_name |-> m.table_name,
                 dax_expression |-> m.dax_expression] : p \in JoinedProjects(m.project_id)}
               : m \in {u \in measures : u.measure_name = term}}]

\* lines 296-306: the query selects t.table_name, and no table of its FROM
\* clause is named t (they are p, tb and c), so SQLite rejects the statement
\* and read_sql_query raises
NormImpactResult(kind, term) ==
    CASE kind = "table" -> [raised |-> FALSE, results |-> NormTableImpact(term)]
      [] kind = "measure" -> [raised |-> FALSE, results |-> NormMeasureImpact(term)]
      [] kind = "column" -> [raised |-> TRUE, results |-> <<>>]

NormAnalyzeImpact(kind, term) ==
    /\ variant = "norm"
    /\ view' = [op |-> "norm_analyze_impact", term |-> term, scope |-> kind,
                rows |-> NormImpactResult(kind, term)]
    /\ UNCHANGED <<constvars, projects, children, seq, now, sess>>

(***************************************************************************)
(* PowerBIDependencyAnalyzer.create_dependency_network: a networkx Graph,  *)
(* held as its node set and the weight of each edge; an edge is the set of *)
(* its two ends (one end for a loop).                                      *)
(***************************************************************************)
RECURSIVE Split(_, _)
\* text.split(','): the pieces between the separator characters
Split(text, sep) ==
    IF \A i \in 1..Len(text) : text[i] # sep THEN <<text>>
    ELSE LET k == CHOOSE i \in 1..Len(text) :
                     text[i] = sep /\ \A j \in 1..(i - 1) : text[j] # sep
         IN  <<SubSeq(text, 1, k - 1)>> \o Split(SubSeq(text, k + 1, Len(text)), sep)

\* lines 329-332: weight += 1 on an edge the graph has, else add_edge with
\* weight 1, which also adds the ends as nodes
AddEdge(G, a, b) ==
    LET e == {a, b}
    IN  IF e \in DOMAIN G.weight
        THEN [G EXCEPT !.weight[e] = @ + 1]
        ELSE [nodes |-> G.nodes \cup e,
              weight |-> [x \in DOMAIN G.weight \cup {e} |->
                             IF x = e THEN 1 ELSE G.weight[x]]]

RECURSIVE AddPairs(_, _, _, _)
\* for i in range(len(project_list)): for j in range(i+1, len(project_list))
AddPairs(G, list, i, j) ==
    IF i > Len(list) THEN G
    ELSE IF j > Len(list) THEN AddPairs(G, list, i + 1, i + 2)
    ELSE AddPairs(AddEdge(G, list[i], list[j]), list, i, j + 1)

RECURSIVE AddSharedRows(_, _)
\* the loop over the rows of get_shared_tables (lines 323-332)
AddSharedRows(G, rows) ==
    IF Len(rows) = 0 THEN G
    ELSE AddSharedRows(
             IF Head(rows).project_count > 1
             THEN AddPairs(G, Split(Head(rows).projects, ","), 1, 2)
             ELSE G,
             Tail(rows))

\* lines 316-320: a node for each row of get_all_projects; then the edges
\* from one result of get_shared_tables
NetworkOf(shared) ==
    AddSharedRows([nodes |-> {p.name : p \in projects}, weight |-> <<>>], shared)

CreateDependencyNetwork ==
    /\ variant = "norm"
    /\ \E shared \in NormSharedOutcomes("table") :
          view' = [op |-> "create_dependency_network", term |-> <<>>,
                   scope |-> "none", rows |-> NetworkOf(shared)]
    /\ UNCHANGED <<constvars, projects, children, seq, now, sess>>

Read ==
    \/ GetAllProjects
    \/ CreateDependencyNetwork
    \/ GetSharedTables
    \/ GetSharedMeasures
    \/ GetSharedColumns
    \/ \E term \in Terms, scope \in Scopes : AnalyzeImpact(term, scope)
    \/ \E term \in Terms, kind \in ImpactKinds : NormAnalyzeImpact(kind, term)

ReadNext ==
    \/ Write(Writer, ReadNames, ReadContents, ReadInserts)
    \/ Read

\* one session that writes, and readers on connections of their own
ReadSpec == Init /\ [][ReadNext]_vars

(***************************************************************************)
(* The upload page: the loop over uploaded_files (mcp_analyzer.py 572-608, *)
(* powerbi_analyzer.py 365-391).                                           *)
(***************************************************************************)
\* the lists of files st.file_uploader can hand over
UploadedLists(nn, nc, nf) ==
    UNION {[1..k -> [name : NamesUpTo(nn), content : ContentsUpTo(nc)]] : k \in 1..nf}

\* "Analyze Files (Replace if exists)" is clicked (the normalized page
\* starts the loop as soon as files are uploaded)
AnalyzeFilesBatch(s, files, cap) ==
    /\ sess[s].pc \in {"idle", "aborted"}
    /\ seq.projects + Len(files) <= cap
    /\ sess' = [sess EXCEPT ![s].pc = "next", ![s].uploaded = files, ![s].messages = <<>>]
    /\ view' = NoView
    /\ UNCHANGED <<constvars, projects, children, seq, now>>

\* the loop body up to the call: the upload is written to a temporary
\* .pbix file; the denormalized page deletes the row of the project name
\* and commits (lines 588-593); analyze is entered
BeginFile(s) ==
    /\ sess[s].pc = "next"
    /\ Len(sess[s].messages) < Len(sess[s].uploaded)
    /\ LET f == sess[s].uploaded[Len(sess[s].messages) + 1]
       IN  /\ projects' = IF variant = "mcp" THEN DeleteByName(projects, f.name)
                                              ELSE projects
           /\ sess' = [sess EXCEPT ![s].pc = "select", ![s].name = f.name,
                                    ![s].file = f.content, ![s].existing = NotFetched,
                                    ![s].result = None, ![s].extractor = "idle",
                                    ![s].tmp_files = @ \cup {"pbix"}]
    /\ view' = NoView
    /\ UNCHANGED <<constvars, children, seq, now>>

\* the statements of analyze_pbix_file_with_mcp before its try (lines
\* 76-93: the hash, connect, SELECT, DELETE, commit) raise, for instance
\* sqlite3.OperationalError on a locked or unwritable database: nothing
\* catches the exception, and the run of the page ends with it
McpSqlRaises(s) ==
    /\ variant = "mcp"
    /\ sess[s].pc = "select"
    /\ Len(sess[s].messages) < Len(sess[s].uploaded)
    /\ sess' = [sess EXCEPT ![s].pc = "aborted", ![s].file = 0]
    /\ view' = NoView
    /\ UNCHANGED <<constvars, projects, children, seq, now>>

\* after the call: st.success or st.error for the file, os.unlink of the
\* temporary .pbix file, the progress bar
ReportFile(s) ==
    /\ sess[s].pc = "done"
    /\ Len(sess[s].messages) < Len(sess[s].uploaded)
    /\ sess' = [sess EXCEPT
                   ![s].pc = "next",
                   ![s].messages = Append(@, [name |-> sess[s].name,
                                              ok |-> sess[s].result # None]),
                   ![s].tmp_files = @ \ {"pbix"}]
    /\ view' = NoView
    /\ UNCHANGED <<constvars, projects, children, seq, now>>

\* the loop is over: 'Analysis complete!'
BatchComplete(s) ==
    /\ sess[s].pc = "next"
    /\ Len(sess[s].messages) = Len(sess[s].uploaded)
    /\ sess' = [sess EXCEPT ![s].pc = "idle"]
    /\ view' = NoView
    /\ UNCHANGED <<constvars, projects, children, seq, now>>

UploadNext ==
    \/ \E files \in UploadedLists(UploadNames, UploadContents, UploadFiles) :
          AnalyzeFilesBatch(Writer, files, UploadInserts)
    \/ BeginFile(Writer)
    \/ McpSelect(Writer)
    \/ \E p \in UNION {ProcOutcomes(c) : c \in ContentsUpTo(UploadContents)} :
          McpRun(Writer, p)
    \/ McpSqlRaises(Writer)
    \/ NormSelect(Writer)
    \/ NormStore(Writer)
    \/ NormStoreFail(Writer)
    \/ ReportFile(Writer)
    \/ BatchComplete(Writer)

\* one session uploading batches of files, with storage errors
UploadSpec == Init /\ [][UploadNext]_vars

\* a statement of an analyze call that can be executed is executed, and
\* subprocess.run ends: the script exits or the 30 second timeout expires
CallStep(s) ==
    \/ McpSelect(s)
    \/ \E p \in UNION {ProcOutcomes(c) : c \in ContentsUpTo(UploadContents)} :
          McpRun(s, p)
    \/ NormSelect(s)
    \/ NormStore(s)
    \/ NormStoreFail(s)

\* the upload page when every call in progress goes on
UploadLiveSpec == UploadSpec /\ WF_vars(CallStep(Writer))

(***************************************************************************)
(* The read operations of MCPStreamlitBridge as functions of the projects  *)
(* table: the table is an input, and a blob of it may hold text that       *)
(* json.loads rejects (the program never writes one; the file can).        *)
(***************************************************************************)
\* what the slot of one project name may hold
StoreSlots ==
    {[stored |-> FALSE, content |-> 1, tables_ok |-> TRUE, measures_ok |-> TRUE]}
    \cup [stored : {TRUE}, content : 1..StoreContents,
          tables_ok : BOOLEAN, measures_ok : BOOLEAN]

\* the row of slot i: as analyze_pbix_file_with_mcp stores it, with the
\* blobs that are not parseable replaced
StoreRow(i, slot) ==
    LET good == McpRow(i, NamePool[i], slot.content, i, Envelope(Bundle(slot.content)))
    IN  [good EXCEPT
            !.tables_data = IF slot.tables_ok THEN @ ELSE GarbageText,
            !.measures_data = IF slot.measures_ok THEN @ ELSE GarbageText]

StoreInit ==
    /\ variant = "mcp"
    /\ available = TRUE
    /\ schema = "mcp"
    /\ \E slots \in [1..StoreNames -> StoreSlots] :
          projects = {StoreRow(i, slots[i]) : i \in {j \in 1..StoreNames : slots[j].stored}}
    /\ tables = {}
    /\ columns = {}
    /\ measures = {}
    /\ relationships = {}
    /\ power_queries = {}
    /\ seq = [t \in {"projects", "tables", "columns", "measures",
                     "relationships", "power_queries"} |->
                 IF t = "projects" THEN StoreNames ELSE 0]
    /\ now = StoreNames
    /\ sess = [s \in Sessions |-> IdleSession]
    /\ view = NoView

StoreNext ==
    \/ GetSharedTables
    \/ GetSharedMeasures
    \/ GetSharedColumns
    \/ \E term \in Terms, scope \in Scopes : AnalyzeImpact(term, scope)

StoreSpec == StoreInit /\ [][StoreNext]_vars

(***************************************************************************)
(* The extractor script and the parser of its output: one session          *)
(* analyzes files whose sub-extractions may raise, among them a file with  *)
(* a table whose name holds the marker.                                    *)
(***************************************************************************)
\* the file contents analyzed: Catalogue[2] and Catalogue[6]
ScriptFiles == {2, 6}

ScriptInit == Init /\ variant = "mcp"

ScriptNext ==
    \/ \E n \in NamesUpTo(ScriptNames), c \in ScriptFiles :
          McpCall(Writer, n, c, ScriptInserts)
    \/ McpSelect(Writer)
    \/ McpDelete(Writer)
    \/ \E p \in UNION {ScriptOutcomes(c) : c \in ScriptFiles} : McpRun(Writer, p)

ScriptSpec == ScriptInit /\ [][ScriptNext]_vars

(***************************************************************************)
(* The column report over files whose table and column names hold a '.':   *)
(* one session analyzes them and get_shared_columns is read.               *)
(***************************************************************************)
\* the file contents analyzed: Catalogue[1], Catalogue[4] and Catalogue[5]
ColumnFiles == {1, 4, 5}

ColumnNext ==
    \/ \E n \in NamesUpTo(ColumnNames), c \in ColumnFiles :
          McpCall(Writer, n, c, ColumnInserts)
    \/ McpSelect(Writer)
    \/ McpDelete(Writer)
    \/ \E p \in UNION {ProcOutcomes(c) : c \in ColumnFiles} : McpRun(Writer, p)
    \/ GetSharedColumns

ColumnSpec == ScriptInit /\ [][ColumnNext]_vars

(***************************************************************************)
(* The dependency graph of the normalized variant over project names of    *)
(* which one holds a comma.                                                *)
(***************************************************************************)
\* the project names used: 'A', 'C' and 'A,B'
NetNameSet == {NamePool[2], NamePool[3], NamePool[5]}

NetInit == Init /\ variant = "norm"

NetNext ==
    \/ \E n \in NetNameSet, c \in ContentsUpTo(NetContents) :
          NormCall(Writer, n, c, NetInserts)
    \/ NormSelect(Writer)
    \/ NormStore(Writer)
    \/ NormStoreFail(Writer)
    \/ CreateDependencyNetwork

NetSpec == NetInit /\ [][NetNext]_vars

(***************************************************************************)
(* Either variant analyzing the files of ScriptFiles, the denormalized one *)
(* with sub-extractions that may raise.                                    *)
(***************************************************************************)
CountNext ==
    \/ ScriptNext
    \/ \E n \in NamesUpTo(ScriptNames), c \in ScriptFiles :
          NormCall(Writer, n, c, ScriptInserts)
    \/ NormSelect(Writer)
    \/ NormStore(Writer)
    \/ NormStoreFail(Writer)

CountSpec == Init /\ [][CountNext]_vars

(***************************************************************************)
(* The two dashboards on the database file powerbi_metadata.db, which is   *)
(* the db_path of both.  Starting a dashboard constructs its analyzer,     *)
(* whose __init__ calls init_database.                                     *)
(***************************************************************************)
\* MCPStreamlitBridge.init_database: a projects table without the column
\* tables_data is dropped (its sqlite_sequence entry goes with it), then
\* CREATE TABLE IF NOT EXISTS
McpInitDatabase ==
    /\ schema' = "mcp"
    /\ projects' = IF schema = "mcp" THEN projects ELSE {}
    /\ seq' = IF schema = "mcp" THEN seq ELSE [seq EXCEPT !.projects = 0]

\* PowerBIDependencyAnalyzer.init_database: CREATE TABLE IF NOT EXISTS
\* leaves a projects table that exists as it is
NormInitDatabase ==
    /\ schema' = IF schema \in {"mcp", "norm"} THEN schema ELSE "norm"
    /\ UNCHANGED <<projects, seq>>

\* dashboard v is started (the other one, or the same one again) while no
\* analysis runs
StartDashboard(v) ==
    /\ \A s \in Sessions : sess[s].pc \in {"idle", "done"}
    /\ now < InitInserts
    /\ variant' = v
    /\ available' \in (IF v = "norm" THEN BOOLEAN ELSE {TRUE})
    /\ IF v = "mcp" THEN McpInitDatabase ELSE NormInitDatabase
    /\ sess' = [s \in Sessions |-> IdleSession]
    /\ view' = NoView
    /\ UNCHANGED <<children, now>>

InitNext ==
    \/ \E v \in {"mcp", "norm"} : StartDashboard(v)
    \/ \E n \in NamesUpTo(InitNames), c \in ContentsUpTo(InitContents) :
          McpCall(Writer, n, c, InitInserts)
    \/ McpSelect(Writer)
    \/ McpDelete(Writer)
    \/ \E p \in UNION {ProcOutcomes(c) : c \in ContentsUpTo(InitContents)} :
          McpRun(Writer, p)
    \/ \E n \in NamesUpTo(InitNames), c \in ContentsUpTo(InitContents) :
          NormCall(Writer, n, c, InitInserts)
    \/ NormSelect(Writer)
    \/ NormStore(Writer)
    \/ NormStoreFail(Writer)

InitSpec == Init /\ [][InitNext]_vars


(***************************************************************************)
(* What the claims are stated against: the data of the analysis that       *)
(* stored a project row, read off the file the row was stored from.        *)
(***************************************************************************)
\* the file content a stored project row was analyzed from
ContentOf(p) == p.file_hash[2]

\* the names a file's data model holds
TruthKeys(c, kind) ==
    LET ts == Range(Bundle(c).tables)
    IN  CASE kind = "table" -> {t.name : t \in ts}
          [] kind = "measure" -> UNION {{m.name : m \in Range(t.measures)} : t \in ts}
          [] kind = "column" ->
                UNION {{t.name \o <<".">> \o col : col \in Range(t.columns)} : t \in ts}

\* the stored projects whose data holds the name
TruthOwners(kind, k) ==
    {p.name : p \in {q \in projects : k \in TruthKeys(ContentOf(q), kind)}}
TruthAllKeys(kind) == UNION {TruthKeys(ContentOf(p), kind) : p \in projects}

SharedOps == {"get_shared_tables", "get_shared_measures", "get_shared_columns"}
KindOf(op) ==
    CASE op = "get_shared_tables" -> "table"
      [] op = "get_shared_measures" -> "measure"
      [] op = "get_shared_columns" -> "column"

\* a call is between its entry and its return
InCall(s) == sess[s].pc \notin {"idle", "done"}

(***************************************************************************)
(* C1.  An analyze call whose project name is stored with the hash of the  *)
(* given file writes nothing (no row of any table and no id counter        *)
(* changes) and returns the id of the stored row.                          *)
(***************************************************************************)
C1_UnchangedFileIsNoOp ==
    [][\A s \in Sessions : \A r \in projects :
          ( /\ sess[s].pc = "select"
            /\ sess'[s].pc # "select"
            /\ r.name = sess[s].name
            /\ r.file_hash = FileHash(sess[s].file) )
          => ( /\ projects' = projects
               /\ children' = children
               /\ seq' = seq
               /\ now' = now
               /\ sess'[s].pc = "done"
               /\ sess'[s].result = r.id )]_vars

\* a call has returned the id of a row it found unchanged
C1_Witness ==
    \E s \in Sessions : \E r \in projects :
        /\ sess[s].pc = "done"
        /\ sess[s].extractor = "idle"
        /\ sess[s].result = r.id
        /\ sess[s].name = r.name
        /\ seq.projects = 1

(***************************************************************************)
(* C2.  After a successful re-analysis of a changed file the store holds   *)
(* only the child data of the new analysis: every child row references a   *)
(* project row (a table row, for columns) that exists, and the data stored *)
(* for each project is the data of the file its row was stored from.       *)
(***************************************************************************)
NoOrphanRows ==
    /\ \A t \in tables : \E p \in projects : p.id = t.project_id
    /\ \A c \in columns : \E t \in tables : t.id = c.table_id
    /\ \A m \in measures : \E p \in projects : p.id = m.project_id
    /\ \A r \in relationships : \E p \in projects : p.id = r.project_id
    /\ \A q \in power_queries : \E p \in projects : p.id = q.project_id

C2_OnlyNewChildData ==
    /\ NoOrphanRows
    /\ variant = "norm" =>
          \A p \in projects :
              {t.table_name : t \in {u \in tables : u.project_id = p.id}}
                  = TruthKeys(ContentOf(p), "table")
    /\ variant = "mcp" =>
          \A p \in projects :
              LoadedList(p.tables_data) = ScriptTables(Bundle(ContentOf(p)))

(***************************************************************************)
(* C3.  In every reachable state of two sessions that analyze, delete and  *)
(* clear on one database, the projects table holds at most one row per     *)
(* project name.                                                           *)
(***************************************************************************)
C3_OneRowPerName ==
    \A p, q \in projects : p.name = q.name => p = q

\* both sessions have stored the same name, and one row holds it
C3_Witness ==
    /\ sess["s1"].pc = "done" /\ sess["s2"].pc = "done"
    /\ sess["s1"].name = sess["s2"].name
    /\ sess["s1"].result # None /\ sess["s2"].result # None
    /\ sess["s1"].result # sess["s2"].result
    /\ Cardinality({p \in projects : p.name = sess["s1"].name}) = 1

(***************************************************************************)
(* C4.  A re-analysis of a stored project is atomic for its caller: when   *)
(* the call returns None the row it found is still stored, and when it     *)
(* returns an id the row of the new analysis is.                           *)
(***************************************************************************)
C4_ReanalysisAtomic ==
    [][\A s \in Sessions :
          ( /\ InCall(s)
            /\ sess[s].existing.found
            /\ sess'[s].pc = "done" )
          => IF sess'[s].result = None
             THEN \E r \in projects' :
                     r.name = sess[s].name /\ r.id = sess[s].existing.id
             ELSE \E r \in projects' :
                     /\ r.name = sess[s].name
                     /\ r.id = sess'[s].result
                     /\ r.file_hash = FileHash(sess[s].file)]_vars

(***************************************************************************)
(* C5.  When the extraction does not succeed (timeout, non-zero exit code, *)
(* no SUCCESS: marker, a payload that is not a JSON object with the four   *)
(* keys), analyze_pbix_file_with_mcp returns None and the step commits no  *)
(* row: the projects table and its id counter are as before.               *)
(***************************************************************************)
C5_FailedExtractionStoresNothing ==
    [][\A s \in Sessions :
          ( /\ variant = "mcp"
            /\ sess[s].pc = "run"
            /\ sess'[s].pc = "done"
            /\ sess'[s].extractor # "succeeded" )
          => ( /\ sess'[s].result = None
               /\ projects' = projects
               /\ seq' = seq )]_vars

\* a call has returned None after a failed or timed-out extraction, and no
\* row of its name is stored
C5_Witness ==
    \E s \in Sessions :
        /\ variant = "mcp"
        /\ sess[s].pc = "done"
        /\ sess[s].extractor \in {"failed", "timed-out"}
        /\ sess[s].result = None
        /\ \A r \in projects : r.name # sess[s].name

(***************************************************************************)
(* C6.  While a session re-analyzes a stored project, get_all_projects on  *)
(* another connection lists a row of that project: the old one or the new  *)
(* one, never none.                                                        *)
(***************************************************************************)
C6_ReaderSeesOldOrNew ==
    ( /\ view.op = "get_all_projects"
      /\ InCall(Writer)
      /\ sess[Writer].existing.found )
    => \E i \in 1..Len(view.rows) : view.rows[i].name = sess[Writer].name

(***************************************************************************)
(* C7.  A shared-entity report holds exactly one row for each name that    *)
(* the data of two or more stored projects holds, none for any other name, *)
(* and the row's project_count is the number of those projects (between 2  *)
(* and the number of stored projects).                                     *)
(***************************************************************************)
C7_SharedRowsExact ==
    view.op \in SharedOps =>
        LET kind == KindOf(view.op)
            rows == view.rows
        IN  /\ \A k \in TruthAllKeys(kind) :
                  Cardinality({i \in 1..Len(rows) : rows[i].name = k})
                      = IF Cardinality(TruthOwners(kind, k)) >= 2 THEN 1 ELSE 0
            /\ \A i \in 1..Len(rows) :
                  /\ rows[i].name \in TruthAllKeys(kind)
                  /\ rows[i].project_count = Cardinality(TruthOwners(kind, rows[i].name))
                  /\ rows[i].project_count >= 2
                  /\ rows[i].project_count <= Cardinality(projects)

\* a measure report with a row, while one project holds a measure name
\* twice and another name is in one project only
C7_Witness ==
    /\ view.op = "get_shared_measures"
    /\ Len(view.rows) >= 1
    /\ \E p \in projects : ContentOf(p) = 2
    /\ \E k \in TruthAllKeys("measure") : Cardinality(TruthOwners("measure", k)) = 1

C9_RowsByCountDescending ==
    view.op \in SharedOps =>
        \A i \in 1..(Len(view.rows) - 1) :
            view.rows[i].project_count >= view.rows[i + 1].project_count

\* a report whose first row counts three projects and whose second two
C9_Witness ==
    /\ view.op \in SharedOps
    /\ Len(view.rows) >= 2
    /\ view.rows[1].project_count = 3
    /\ view.rows[2].project_count = 2

(***************************************************************************)
(* C10.  analyze_impact(term, scope) fills each list by the scope: table   *)
(* matches iff scope is all or table, column matches iff scope is all or   *)
(* column, measure-name and DAX matches iff scope is all or measure.       *)
(***************************************************************************)
\* every stored (project, table, column) whose column name holds the term
TruthColumnMatches(term) ==
    UNION {UNION {{<<p.name, t.name, col>> :
                      col \in {x \in Range(t.columns) : Contains(Lower(term), Lower(x))}}
                  : t \in Range(Bundle(ContentOf(p)).tables)} : p \in projects}
TruthTableMatches(term) ==
    UNION {{<<p.name, t.name>> :
               t \in {x \in Range(Bundle(ContentOf(p)).tables) :
                         Contains(Lower(term), Lower(x.name))}} : p \in projects}
TruthMeasureMatches(term) ==
    UNION {UNION {{<<p.name, t.name, m.name>> :
                      m \in {x \in Range(t.measures) : Contains(Lower(term), Lower(x.name))}}
                  : t \in Range(Bundle(ContentOf(p)).tables)} : p \in projects}
TruthDaxMatches(term) ==
    UNION {UNION {{<<p.name, m.name, m.expression>> :
                      m \in {x \in Range(t.measures) :
                                Contains(Lower(term), Lower(x.expression))}}
                  : t \in Range(Bundle(ContentOf(p)).tables)} : p \in projects}

C10_ListsFollowScope ==
    view.op = "analyze_impact" =>
        LET r == view.rows
            term == view.term
            scope == view.scope
        IN  /\ {<<h.project_name, h.table_name>> : h \in Range(r.projects_using_table)}
                  = IF scope \in {"all", "table"} THEN TruthTableMatches(term) ELSE {}
            /\ {<<h.project_name, h.table_name, h.column_name>>
                    : h \in Range(r.projects_using_column)}
                  = IF scope \in {"all", "column"} THEN TruthColumnMatches(term) ELSE {}
            /\ {<<h.project_name, h.table_name, h.measure_name>>
                    : h \in Range(r.projects_with_measure)}
                  = IF scope \in {"all", "measure"} THEN TruthMeasureMatches(term) ELSE {}
            /\ {<<h.project_name, h.measure_name, h.dax_expression>>
                    : h \in Range(r.measures_referencing_item)}
                  = IF scope \in {"all", "measure"} THEN TruthDaxMatches(term) ELSE {}

(***************************************************************************)
(* C11.  Impact search matches by case-insensitive substring containment   *)
(* in both implementations: a name or DAX expression is reported iff the   *)
(* lower-cased term is a substring of the lower-cased stored text, so a    *)
(* term written in any other letter case returns the same result lists.    *)
(***************************************************************************)
\* the spellings of a term that differ in letter case only
CaseVariants(term) ==
    {v \in [1..Len(term) -> {LowerChar(term[i]) : i \in 1..Len(term)}
                              \cup {UpperChar(term[i]) : i \in 1..Len(term)}] :
        Lower(v) = Lower(term)}

\* the stored projects of the normalized variant with a table whose name
\* holds the term, whatever the case
NormTruthTableOwners(term) ==
    UNION {{p.name : p \in JoinedProjects(t.project_id)}
           : t \in {u \in tables : Contains(Lower(term), Lower(u.table_name))}}

C11_CaseInsensitiveSubstring ==
    /\ view.op = "analyze_impact" =>
          /\ \A v \in CaseVariants(view.term) :
                McpAnalyzeImpact(v, view.scope) = view.rows
          /\ view.scope = "all" =>
                /\ {<<h.project_name, h.table_name>>
                        : h \in Range(view.rows.projects_using_table)}
                      = TruthTableMatches(view.term)
                /\ {<<h.project_name, h.table_name, h.column_name>>
                        : h \in Range(view.rows.projects_using_column)}
                      = TruthColumnMatches(view.term)
    /\ view.op = "norm_analyze_impact" =>
          /\ \A v \in CaseVariants(view.term) :
                NormImpactResult(view.scope, v) = view.rows
          /\ view.scope = "table" =>
                view.rows.results.projects_using_table = NormTruthTableOwners(view.term)

(***************************************************************************)
(* C12.  With scope all or measure, the measure-name list holds every      *)
(* measure whose name holds the term and the DAX list every measure whose  *)
(* expression holds it, each once, whatever the other test says.           *)
(***************************************************************************)
C12_IndependentBuckets ==
    (view.op = "analyze_impact" /\ view.scope \in {"all", "measure"}) =>
        /\ {<<h.project_name, h.table_name, h.measure_name>>
                : h \in Range(view.rows.projects_with_measure)}
              = TruthMeasureMatches(view.term)
        /\ Len(view.rows.projects_with_measure) = Cardinality(TruthMeasureMatches(view.term))
        /\ {<<h.project_name, h.measure_name, h.dax_expression>>
                : h \in Range(view.rows.measures_referencing_item)}
              = TruthDaxMatches(view.term)
        /\ Len(view.rows.measures_referencing_item) = Cardinality(TruthDaxMatches(view.term))

\* a search whose term is in the name and the expression of one measure,
\* which is in both lists, and in the name only of another
C12_Witness ==
    /\ view.op = "analyze_impact"
    /\ view.scope = "measure"
    /\ \E a \in Range(view.rows.projects_with_measure) :
          \E x \in Range(view.rows.measures_referencing_item) :
              /\ a.project_name = x.project_name
              /\ a.measure_name = x.measure_name
              /\ a.dax_expression = x.dax_expression
    /\ \E b \in Range(view.rows.projects_with_measure) :
          ~Contains(Lower(view.term), Lower(b.dax_expression))

(***************************************************************************)
(* C13 as claimed.  A stored project with an unparseable tables_data or    *)
(* measures_data blob contributes nothing to the shared-entity reports and *)
(* to analyze_impact, and the other projects contribute what they would    *)
(* without it.                                                             *)
(***************************************************************************)
\* both blobs of the row are parseable
SoundRow(p) == JsonLoads(p.tables_data).ok /\ JsonLoads(p.measures_data).ok

\* the stored projects, among those of S, whose data holds the name
OwnersAmong(S, kind, k) == {p.name : p \in {q \in S : k \in TruthKeys(ContentOf(q), kind)}}

\* the rows a shared-entity report shows when the projects of S are the
\* ones that count: name and project_count
SharedAmong(S, kind) ==
    {<<k, Cardinality(OwnersAmong(S, kind, k))>>
        : k \in {x \in UNION {TruthKeys(ContentOf(p), kind) : p \in S} :
                     Cardinality(OwnersAmong(S, kind, x)) >= 2}}

\* the matches of analyze_impact by project, over the projects of S
TableMatchesAmong(S, term) == {h \in TruthTableMatches(term) : h[1] \in {p.name : p \in S}}
ColumnMatchesAmong(S, term) == {h \in TruthColumnMatches(term) : h[1] \in {p.name : p \in S}}
MeasureMatchesAmong(S, term) == {h \in TruthMeasureMatches(term) : h[1] \in {p.name : p \in S}}
DaxMatchesAmong(S, term) == {h \in TruthDaxMatches(term) : h[1] \in {p.name : p \in S}}

\* what a view shows, as sets
ViewShared == {<<view.rows[i].name, view.rows[i].project_count>> : i \in 1..Len(view.rows)}
ViewTables == {<<h.project_name, h.table_name>> : h \in Range(view.rows.projects_using_table)}
ViewColumns ==
    {<<h.project_name, h.table_name, h.column_name>>
        : h \in Range(view.rows.projects_using_column)}
ViewMeasures ==
    {<<h.project_name, h.table_name, h.measure_name>>
        : h \in Range(view.rows.projects_with_measure)}
ViewDax ==
    {<<h.project_name, h.measure_name, h.dax_expression>>
        : h \in Range(view.rows.measures_referencing_item)}

C14_BatchOneByOneAllAttempted ==
    \A s \in Sessions :
        LET u == sess[s].uploaded
            m == sess[s].messages
        IN  /\ Len(m) <= Len(u)
            /\ \A i \in 1..Len(m) : m[i].name = u[i].name
            /\ InCall(s) /\ sess[s].pc # "next" /\ sess[s].pc # "aborted" =>
                  /\ Len(m) < Len(u)
                  /\ sess[s].name = u[Len(m) + 1].name
            /\ sess[s].pc \in {"idle", "aborted"} => Len(m) = Len(u)

(***************************************************************************)
(* C17.  Whenever no analysis is running for an uploaded file (before a    *)
(* file is begun, after its message, after the loop, and after an          *)
(* exception has ended the run), no temporary file made for one exists.    *)
(***************************************************************************)
C17_NoTemporaryFileRemains ==
    \A s \in Sessions :
        sess[s].pc \in {"idle", "next", "aborted"} => sess[s].tmp_files = {}

(***************************************************************************)
(* C20.  'Analyze Files' for a file whose project name is stored with the  *)
(* hash of the file leaves the stored project row as it is.                *)
(***************************************************************************)
C20_AnalyzeFilesKeepsUnchangedRow ==
    [][\A r \in projects :
          ( /\ variant = "mcp"
            /\ BeginFile(Writer)
            /\ r.name = sess'[Writer].name
            /\ r.file_hash = FileHash(sess'[Writer].file) )
          => r \in projects']_vars

(***************************************************************************)
(* C18.  The delete button of a project leaves no row with its id, and a   *)
(* confirmed 'Clear All Data' leaves no row at all; the data of a project  *)
(* is held in its row, so what get_all_projects, the shared-entity reports *)
(* and analyze_impact return afterwards comes from stored rows only.       *)
(***************************************************************************)
\* the project names a result of analyze_impact mentions
ViewImpactProjects ==
    {h[1] : h \in ViewTables \cup ViewColumns \cup ViewMeasures \cup ViewDax}

\* what the last read returned is taken from the rows that are stored
ViewFromStoredRows ==
    /\ view.op = "get_all_projects" => Range(view.rows) \subseteq projects
    /\ view.op \in SharedOps => ViewShared \subseteq SharedAmong(projects, KindOf(view.op))
    /\ view.op = "analyze_impact" => ViewImpactProjects \subseteq {p.name : p \in projects}

C18_DeleteRemovesProjectData ==
    [][variant = "mcp" =>
          /\ \A s \in Sessions, id \in 1..seq.projects :
                 DeleteClick(s, id) => \A r \in projects' : r.id # id
          /\ \A s \in Sessions :
                 ClearAllClick(s) /\ sess[s].confirm_clear => projects' = {}
          /\ ViewFromStoredRows']_vars

\* the project the writer stored has been deleted with its button while
\* another project is stored, and a report has been read since
C18_Witness ==
    /\ variant = "mcp"
    /\ sess[Writer].pc = "done"
    /\ sess[Writer].result # None
    /\ \A r \in projects : r.id # sess[Writer].result
    /\ projects # {}
    /\ view.op = "analyze_impact"
    /\ ViewImpactProjects # {}

(***************************************************************************)
(* C19.  get_all_projects returns every stored project exactly once, the   *)
(* most recently analyzed first; a call skipped as unchanged leaves        *)
(* last_analyzed, and so the order, as it was.                             *)
(***************************************************************************)
C19_AllProjectsNewestFirst ==
    [][/\ view'.op = "get_all_projects" =>
             /\ Len(view'.rows) = Cardinality(projects')
             /\ Range(view'.rows) = projects'
             /\ \A i, j \in 1..Len(view'.rows) :
                    i < j => view'.rows[i].last_analyzed > view'.rows[j].last_analyzed
       /\ \A s \in Sessions :
             sess[s].pc = "select" /\ sess'[s].pc = "done" /\ sess'[s].extractor = "idle"
                 => ByLastAnalyzedDesc(projects') = ByLastAnalyzedDesc(projects)]_vars

\* two projects are listed, the older one being the one the last call,
\* skipped as unchanged, was about
C19_Witness ==
    /\ view.op = "get_all_projects"
    /\ Len(view.rows) >= 2
    /\ sess[Writer].pc = "done"
    /\ sess[Writer].extractor = "idle"
    /\ sess[Writer].result = view.rows[Len(view.rows)].id

(***************************************************************************)
(* C15.  When sub-extractions of the script raise, the envelope it prints  *)
(* has all five keys and the project is stored with what the               *)
(* sub-extractions that did not raise produced.                            *)
(***************************************************************************)
C15_PartialFailureStillStored ==
    [][\A c \in ScriptFiles : \A f \in ScriptFailures(Bundle(c)) :
          ( /\ sess[Writer].pc = "run"
            /\ sess[Writer].file = c
            /\ f.failed # {}
            /\ McpRun(Writer, ScriptRun(c, f)) )
          => LET b == Bundle(c)
                 out == ScriptRun(c, f).stdout
             IN  /\ DOMAIN out[Len(out)].body.value =
                        {"tables", "metadata", "schema", "measures", "relationships"}
                 /\ \E r \in projects' :
                        /\ r.id = seq'.projects
                        /\ r.name = sess[Writer].name
                        /\ "tables" \notin f.failed =>
                               r.tables_data = JsonDumps(ScriptTables(b))
                        /\ "measures" \notin f.failed =>
                               r.measures_data = JsonDumps(ScriptMeasures(b))
                        /\ "relationships" \notin f.failed =>
                               r.relationships_data = JsonDumps(ScriptRelationships(b))]_vars

(***************************************************************************)
(* C16.  For every run of the script that prints the marker, whatever      *)
(* lines it prints before it, the payload the parser decodes is the object *)
(* the script serialized after the marker.                                 *)
(***************************************************************************)
C16_ParserRecoversPayload ==
    [][\A p \in ScriptOutcomes(sess[Writer].file) :
          sess[Writer].pc = "run" /\ McpRun(Writer, p)
          => ParsePayload(p.stdout) =
                 [ok |-> TRUE, value |-> p.stdout[Len(p.stdout)].body.value]]_vars

(***************************************************************************)
(* C21.  Within a call of analyze_pbix_file_with_mcp the extractor goes    *)
(* from idle to running at most once and from running to exactly one of    *)
(* succeeded, failed and timed-out, never back to running; and every call  *)
(* that was entered returns (a project id or None).                        *)
(***************************************************************************)
ExtractorEnds == {"succeeded", "failed", "timed-out"}

C21_ExtractorOnceAndCallReturns ==
    /\ [][\A s \in Sessions :
             variant = "mcp" =>
                /\ sess'[s].pc = "run" => sess[s].pc \in {"select", "delete", "run"}
                /\ sess'[s].pc = "run" => sess'[s].extractor = "idle"
                /\ sess[s].pc = "run" /\ sess'[s].pc # "run" =>
                       /\ sess'[s].pc = "done"
                       /\ sess'[s].extractor \in ExtractorEnds
                /\ (sess[s].extractor \in ExtractorEnds /\ sess'[s].extractor = "idle")
                       => sess'[s].pc \in {"select", "idle", "next"}]_vars
    /\ \A s \in Sessions :
          (variant = "mcp" /\ sess[s].pc = "select") ~> (sess[s].pc = "done")

(***************************************************************************)
(* C22.  The read operations leave every stored row and every id counter   *)
(* as they are; a row that is stored before and after a step of any        *)
(* operation (same table, same id) has the same fields.                    *)
(***************************************************************************)
ReadOps ==
    {"get_all_projects", "get_shared_tables", "get_shared_measures",
     "get_shared_columns", "analyze_impact", "norm_analyze_impact",
     "create_dependency_network"}

\* the rows of T' with the id of a row of T are that row
RowsKept(T, T2) == \A r \in T, q \in T2 : r.id = q.id => r = q

C22_ReadsLeaveStoreUnchanged ==
    [][/\ view'.op \in ReadOps =>
             UNCHANGED <<projects, tables, columns, measures, relationships,
                         power_queries, seq>>
       /\ RowsKept(projects, projects')
       /\ RowsKept(tables, tables')
       /\ RowsKept(columns, columns')
       /\ RowsKept(measures, measures')
       /\ RowsKept(relationships, relationships')
       /\ RowsKept(power_queries, power_queries')]_vars

\* a dependency graph with an edge has been built from two stored projects
C22_Witness ==
    /\ view.op = "create_dependency_network"
    /\ DOMAIN view.rows.weight # {}
    /\ Cardinality(projects) >= 2
    /\ tables # {}

(***************************************************************************)
(* C23.  With scope 'all', analyze_impact returns the measure-name and     *)
(* DAX-expression matches of every project whose measures_data parses,     *)
(* whether or not the tables_data of the project parses.                   *)
(***************************************************************************)
C23_MeasureChecksIndependentOfTables ==
    view.op = "analyze_impact" /\ view.scope = "all" =>
        LET msound == {p \in projects : JsonLoads(p.measures_data).ok}
        IN  /\ ViewMeasures = MeasureMatchesAmong(msound, view.term)
            /\ ViewDax = DaxMatchesAmong(msound, view.term)

(***************************************************************************)
(* C24.  A click on 'Clear All Data' with confirm_clear unset deletes      *)
(* nothing and sets the flag; with the flag set it deletes every project   *)
(* and resets the flag; and another action of the user between the two     *)
(* clicks (here: starting an analysis) resets the flag, so that it is set  *)
(* only directly after an arming click.                                    *)
(***************************************************************************)
C24_ClearAllNeedsAdjacentClicks ==
    [][\A s \in Sessions :
          variant = "mcp" =>
             /\ (~sess[s].confirm_clear /\ ClearAllClick(s)) =>
                    projects' = projects /\ sess'[s].confirm_clear
             /\ (sess[s].confirm_clear /\ ClearAllClick(s)) =>
                    projects' = {} /\ ~sess'[s].confirm_clear
             /\ (sess[s].pc \in {"idle", "done"} /\ sess'[s].pc = "select") =>
                    ~sess'[s].confirm_clear]_vars

(***************************************************************************)
(* C25.  Normalized variant.  The child rows joined to a stored project    *)
(* row are those of the analysis that stored the row; the shared reports   *)
(* and analyze_impact name only tables and measures of such an analysis;   *)
(* and a project row never gets an id that was handed out before.          *)
(***************************************************************************)
\* the table, measure and (table, column) names joined to project row p
JoinedTableNames(p) == {t.table_name : t \in {u \in tables : u.project_id = p.id}}
JoinedMeasureNames(p) == {m.measure_name : m \in {u \in measures : u.project_id = p.id}}
JoinedColumnNames(p) ==
    UNION {{t.table_name \o <<".">> \o c.column_name
              : c \in {d \in columns : d.table_id = t.id}}
           : t \in {u \in tables : u.project_id = p.id}}

C25_OnlyLatestAnalysisJoined ==
    /\ [](variant = "norm" =>
            /\ \A p \in projects :
                  /\ JoinedTableNames(p) = TruthKeys(ContentOf(p), "table")
                  /\ JoinedMeasureNames(p) = TruthKeys(ContentOf(p), "measure")
                  /\ JoinedColumnNames(p) = TruthKeys(ContentOf(p), "column")
            /\ view.op \in {"get_shared_tables", "get_shared_measures"} =>
                  \A i \in 1..Len(view.rows) :
                     view.rows[i].project_count =
                         Cardinality(TruthOwners(KindOf(view.op), view.rows[i].name))
            /\ (view.op = "norm_analyze_impact" /\ view.scope = "table") =>
                  view.rows.results.projects_using_table = TruthOwners("table", view.term))
    /\ [][variant = "norm" =>
             /\ seq'.projects >= seq.projects
             /\ \A r \in projects' \ projects : r.id > seq.projects]_vars

\* a report with a shared table is read while rows of a superseded
\* analysis (of a project id no row has) are still stored
C25_Witness ==
    /\ variant = "norm"
    /\ view.op = "get_shared_tables"
    /\ Len(view.rows) >= 1
    /\ \E t \in tables : \A p \in projects : p.id # t.project_id

(***************************************************************************)
(* C26.  Every row of get_shared_columns stands for one pair of a table    *)
(* name and a column name, and its count is the number of stored projects  *)
(* that hold a column of that name in a table of that name, at least two.  *)
(***************************************************************************)
\* the (table name, column name) pairs of a file's data model
TruthColumnPairs(c) ==
    UNION {{<<t.name, col>> : col \in Range(t.columns)} : t \in Range(Bundle(c).tables)}

C26_SharedColumnIsOnePair ==
    view.op = "get_shared_columns" =>
        \A i \in 1..Len(view.rows) :
            \E pair \in UNION {TruthColumnPairs(ContentOf(p)) : p \in projects} :
                /\ view.rows[i].name = pair[1] \o <<".">> \o pair[2]
                /\ view.rows[i].project_count >= 2
                /\ view.rows[i].project_count =
                       Cardinality({p \in projects : pair \in TruthColumnPairs(ContentOf(p))})

(***************************************************************************)
(* C27.  The graph of create_dependency_network has the stored project     *)
(* names as its nodes, an edge between two projects exactly when they      *)
(* share a table name, and as the weight of the edge the number of table   *)
(* names the two share.                                                    *)
(***************************************************************************)
\* the table names two stored projects share
SharedTableNames(p, q) ==
    TruthKeys(ContentOf(p), "table") \cap TruthKeys(ContentOf(q), "table")

C27_NetworkOfSharedTables ==
    view.op = "create_dependency_network" =>
        /\ view.rows.nodes = {p.name : p \in projects}
        /\ DOMAIN view.rows.weight =
               {{p.name, q.name} : <<p, q>> \in
                   {pq \in projects \X projects :
                       pq[1] # pq[2] /\ SharedTableNames(pq[1], pq[2]) # {}}}
        /\ \A p, q \in projects :
               (p # q /\ SharedTableNames(p, q) # {}) =>
                   /\ {p.name, q.name} \in DOMAIN view.rows.weight
                   /\ view.rows.weight[{p.name, q.name}] =
                          Cardinality(SharedTableNames(p, q))

(***************************************************************************)
(* C28 as claimed.  When an analyze call returns, it returns an id exactly *)
(* when a project row of the given name is stored, that id being the id of *)
(* the row, and it returns None exactly when the call failed.              *)
(***************************************************************************)
\* the step with which the call of session s returns
Returns(s) == sess[s].pc # "done" /\ sess'[s].pc = "done"

C28_ReturnIffRowStored ==
    [][\A s \in Sessions :
          Returns(s) =>
             /\ sess'[s].result # None <=>
                    \E r \in projects' : r.name = sess'[s].name
             /\ sess'[s].result # None =>
                    \E r \in projects' : r.name = sess'[s].name /\ r.id = sess'[s].result
             /\ sess'[s].result = None <=>
                    sess'[s].extractor \in {"failed", "timed-out"}]_vars

(***************************************************************************)
(* C28 as amended.  When an analyze call returns an id, the project row of *)
(* the given name is stored and has that id; it returns None exactly when  *)
(* the call failed, and then a row of that name may be stored all the      *)
(* same.                                                                   *)
(***************************************************************************)
C28_ReturnedIdIsStoredRow ==
    [][\A s \in Sessions :
          Returns(s) =>
             /\ sess'[s].result # None =>
                    \E r \in projects' : r.name = sess'[s].name /\ r.id = sess'[s].result
             /\ sess'[s].result = None <=>
                    sess'[s].extractor \in {"failed", "timed-out"}]_vars

\* a call has returned None for a name of which a row is stored, and the
\* other session holds the id of a row it stored
C28_Witness ==
    \E s, t \in Sessions :
        /\ sess[s].pc = "done"
        /\ sess[s].result = None
        /\ \E r \in projects : r.name = sess[s].name
        /\ sess[t].pc = "done"
        /\ sess[t].result # None
        /\ \E r \in projects : r.id = sess[t].result /\ r.name = sess[t].name

(***************************************************************************)
(* C29.  The counts of a stored project are those of its stored detail:    *)
(* in the denormalized variant the three counts of metadata_data are the   *)
(* lengths of the lists of tables_data, measures_data and                  *)
(* relationships_data of the row; in the normalized variant table_count    *)
(* and measure_count are the numbers of tables and measures rows of the    *)
(* project id.                                                             *)
(***************************************************************************)
C29_CountsAgreeWithDetail ==
    \A p \in projects :
        IF variant = "mcp"
        THEN LET md == JsonLoads(p.metadata_data).value
             IN  /\ md.table_count = Len(JsonLoads(p.tables_data).value)
                 /\ md.measure_count = Len(JsonLoads(p.measures_data).value)
                 /\ md.relationship_count = Len(JsonLoads(p.relationships_data).value)
        ELSE /\ p.table_count = Cardinality({t \in tables : t.project_id = p.id})
             /\ p.measure_count = Cardinality({m \in measures : m.project_id = p.id})

\* a project is stored whose tables sub-extraction raised after the first
\* table, and whose measures sub-extraction raised
C29_Witness ==
    /\ variant = "mcp"
    /\ \E p \in projects :
          /\ Len(JsonLoads(p.tables_data).value) = 1
          /\ Len(Bundle(ContentOf(p)).tables) = 2
          /\ Len(JsonLoads(p.measures_data).value) = 0

(***************************************************************************)
(* C30.  init_database of either variant leaves every stored project row   *)
(* in place, and after it the projects table has the columns the INSERT of *)
(* an analyze call of that variant names.                                  *)
(***************************************************************************)
C30_InitDatabaseKeepsProjects ==
    [][\A v \in {"mcp", "norm"} :
          StartDashboard(v) => projects \subseteq projects' /\ schema' = v]_vars

=============================================================================
